---- MODULE Spec2Model ----
(***************************************************************************)
(* Model of the streaming session manager of go-speech-recognition-lib     *)
(* (the Go source embedded in src/go-speech-recognition.h, lines 198-555): *)
(* the global session state, InitializeStream, SendAudio,                  *)
(* ReceiveTranscript, CloseStream, GetLog and IsInitialized, with the two  *)
(* mutexes and the cancelable context.                                     *)
(*                                                                         *)
(* Threads: two callers of SendAudio, two callers of ReceiveTranscript,    *)
(* one caller of CloseStream; InitializeStream is called by the host       *)
(* while no other call is in flight (the library does not guard it, the    *)
(* caller serializes it).  The remote service is the environment: every    *)
(* stream operation's outcome is chosen nondeterministically.              *)
(*                                                                         *)
(* A Go run-time panic (nil function call, method call on a nil interface, *)
(* index or slice bounds out of range) terminates the host process: it is  *)
(* recorded in `fault` and no action is enabled afterwards.                *)
(***************************************************************************)
EXTENDS Integers, Sequences, FiniteSets, TLC

\* ---------------------------------------------------------------- bounds
\* Total number of library calls (of any kind) started in one behaviour.
MaxOps == 4
\* A sample count just past one full pipeline (513 samples = 1026 bytes).
MaxSamples == 513

\* ------------------------------------------------------ program constants
\* pipeline := make([]byte, 1024)
PipelineSize == 1024

\* ----------------------------------------------------------------- values
Senders == {"s1", "s2"}
Receivers == {"r1", "r2"}
Closers == {"c1"}
Threads == Senders \cup Receivers \cup Closers

\* nil for ctx, cancel, stream; contexts and streams are numbered 1, 2, ...
Nil == 0
\* an unlocked sync.Mutex
Free == "free"
\* the C.int results
GoTrue == 1
GoFalse == 0
\* no value yet (a call that has not returned, an output never written)
None == "none"

\* the texts stored in logStatus
ErrNotInitialized == "Stream is not initialized"
ErrNewClient == "NewClient: error"
ErrStreamingRecognize == "StreamingRecognize: error"
ErrConfigSend == "Send(config): error"
ErrSendAudio == "Could not send audio:error"
ErrRecvEOF == "Cannot stream results: EOF"
ErrRecvOther == "Cannot stream results: error"
ErrRecognize == "Could not recognize: message"

Min(a, b) == IF a < b THEN a ELSE b

VARIABLES
  ctx,          \* var ctx context.Context            (Nil or a context number)
  cancel,       \* var cancel context.CancelFunc      (Nil or the context it cancels)
  stream,       \* var stream ...StreamingRecognizeClient (Nil or a stream number)
  logStatus,    \* var logStatus string
  initialized,  \* var initialized = false
  sendMutex,    \* var sendMutex = &sync.Mutex{}      (Free or the holder)
  receiveMutex, \* var receiveMutex = &sync.Mutex{}   (Free or the holder)
  cancelled,    \* the contexts whose cancel function has been called
  wire,         \* per stream, the client messages the remote has accepted
  fault,        \* None, or the run-time panic that ended the process
  pc,           \* per thread, its position in the call it is executing
  ops,          \* number of library calls started so far
  init,         \* the last InitializeStream call: its outcome and result
  snd,          \* per sender, the locals of its SendAudio call
  rcv,          \* per receiver, the locals of its ReceiveTranscript call
  cls,          \* the CloseStream calls: counts and the last result seen
  query,        \* the last GetLog or IsInitialized call and what it returned
  delivered     \* per stream, the number of responses it has handed to Recv

globals == <<ctx, cancel, stream, logStatus, initialized>>
locks == <<sendMutex, receiveMutex>>
vars == <<ctx, cancel, stream, logStatus, initialized, sendMutex, receiveMutex,
          cancelled, wire, fault, pc, ops, init, snd, rcv, cls, query,
          delivered>>

\* ------------------------------------------------------- introspection
\* func IsInitialized: a lock-free read of `initialized`
IsInitialized == IF initialized = TRUE THEN GoTrue ELSE GoFalse

\* func GetLog: a read of logStatus
GetLog == logStatus

\* ------------------------------------------------------------ the inputs
\* The configuration InitializeStream is called with.
Configs ==
  {[languageCode |-> "en-US", sampleRateHertz |-> 16000, model |-> "default",
    maxAlternatives |-> 1, interimResults |-> FALSE]}

\* The first message on a stream (lines 291-304).
ConfigMsg(c) ==
  [type |-> "config", encoding |-> "LINEAR16", config |-> c]

\* A variant of AudioMsg whose content is always cut from the start of the
\* buffer.
AudioMsg_FromStart(t, k, len, from, n) ==
  [type |-> "audio", src |-> t, call |-> k, length |-> len, from |-> 0,
   n |-> n]

\* An audio message (lines 388-392): its content is pipeline[:n], the bytes
\* from+1 .. from+n of the buffer of a call with recordingLength len (see
\* AudioContent); src and call say which call wrote it.
AudioMsg(t, k, len, from, n) ==
  [type |-> "audio", src |-> t, call |-> k, length |-> len, from |-> from,
   n |-> n]

\* ------------------------------------------------------------------ Init
\* The state after the package's variable declarations (lines 219-232).
NoInit == [outcome |-> None, ret |-> None, before |-> FALSE]
NoSend ==
  [call |-> 0, length |-> 0, off |-> 0, n |-> 0,
   err |-> None, ret |-> None, stream |-> Nil, clean |-> TRUE, active |-> FALSE]
NoRecv ==
  [call |-> 0, resp |-> None, err |-> None, ret |-> None, output |-> None,
   stream |-> Nil, seq |-> 0, active |-> FALSE]
NoClose == [run |-> 0, snap |-> <<>>, fresh |-> FALSE]
NoQuery == [fn |-> None, call |-> 0, log |-> None, flag |-> GoFalse]

Init ==
  /\ ctx = Nil
  /\ cancel = Nil
  /\ stream = Nil
  /\ logStatus = ""
  /\ initialized = FALSE
  /\ sendMutex = Free
  /\ receiveMutex = Free
  /\ cancelled = {}
  /\ wire = [k \in 1..MaxOps |-> <<>>]
  /\ fault = None
  /\ pc = [t \in Threads |-> "idle"]
  /\ ops = 0
  /\ init = NoInit
  /\ snd = [t \in Senders |-> NoSend]
  /\ rcv = [t \in Receivers |-> NoRecv]
  /\ cls = NoClose
  /\ query = NoQuery
  /\ delivered = [k \in 1..MaxOps |-> 0]

\* A new call may start: the process is alive and the call budget is not used up.
CanStart == fault = None /\ ops < MaxOps
Running == fault = None

\* A step of SendAudio, ReceiveTranscript or InitializeStream ends a run of
\* consecutive CloseStream calls (cls.run counts the CloseStream calls that
\* returned with no step of another operation since the first of them).
EndCloseRun == cls' = [cls EXCEPT !.run = 0, !.snap = <<>>]

\* Two calls of one operation made one after the other are made by the first
\* caller; the second caller is used only while the first is inside a call.
First(t) == IF t \in Senders THEN "s1" ELSE IF t \in Receivers THEN "r1" ELSE t

Concurrent(t) == t = First(t) \/ pc[First(t)] # "idle"

\* ------------------------------------------------- GetLog, IsInitialized
\* func GetLog (lines 509-511), called by the host: the string it returns.
Call_GetLog ==
  /\ CanStart
  /\ ops' = ops + 1
  /\ query' = [fn |-> "GetLog", call |-> ops + 1, log |-> GetLog, flag |-> GoFalse]
  /\ UNCHANGED <<globals, locks, cancelled, wire, fault, pc, init, snd, rcv, cls,
                 delivered>>

\* func IsInitialized (lines 546-552), called by the host: the value it returns.
Call_IsInitialized ==
  /\ CanStart
  /\ ops' = ops + 1
  /\ query' = [fn |-> "IsInitialized", call |-> ops + 1, log |-> None,
               flag |-> IsInitialized]
  /\ UNCHANGED <<globals, locks, cancelled, wire, fault, pc, init, snd, rcv, cls,
                 delivered>>

\* ------------------------------------------------------ InitializeStream
\* What the three fallible steps of InitializeStream can do.
InitOutcomes == {"client_fail", "stream_fail", "send_fail", "ok"}

\* The caller serializes InitializeStream against every other call.
InitAllowed == \A t \in Threads : pc[t] = "idle"

\* lines 277-281: speech.NewClient fails.
Init_ClientFails(o) ==
  /\ o = "client_fail"
  /\ logStatus' = ErrNewClient
  /\ init' = [outcome |-> o, ret |-> GoFalse, before |-> initialized]
  /\ UNCHANGED <<stream, wire, initialized>>

\* lines 284-288: client.StreamingRecognize fails; the global stream is
\* assigned its nil result.
Init_StreamFails(o) ==
  /\ o = "stream_fail"
  /\ stream' = Nil
  /\ logStatus' = ErrStreamingRecognize
  /\ init' = [outcome |-> o, ret |-> GoFalse, before |-> initialized]
  /\ UNCHANGED <<wire, initialized>>

\* A variant of Init_SendFails that also sets initialized.
Init_SendFails_Activates(o) ==
  /\ o = "send_fail"
  /\ stream' = ops + 1
  /\ logStatus' = ErrConfigSend
  /\ initialized' = TRUE
  /\ init' = [outcome |-> o, ret |-> GoFalse, before |-> initialized]
  /\ UNCHANGED wire

\* lines 284-308: the stream is open, sending the configuration fails.
Init_SendFails(o) ==
  /\ o = "send_fail"
  /\ stream' = ops + 1
  /\ logStatus' = ErrConfigSend
  /\ init' = [outcome |-> o, ret |-> GoFalse, before |-> initialized]
  /\ UNCHANGED <<wire, initialized>>

\* A variant of Init_Succeeds that goes on with a stream closed before.
Init_Succeeds_OldStream(c, o) ==
  /\ o = "ok"
  /\ stream' = IF cancelled # {} THEN CHOOSE k \in cancelled : TRUE ELSE ops + 1
  /\ wire' = [wire EXCEPT ![ops + 1] = Append(@, ConfigMsg(c))]
  /\ initialized' = TRUE
  /\ init' = [outcome |-> o, ret |-> GoTrue, before |-> initialized]
  /\ UNCHANGED logStatus

\* lines 284-312: the stream is open and the configuration is sent.
Init_Succeeds(c, o) ==
  /\ o = "ok"
  /\ stream' = ops + 1
  /\ wire' = [wire EXCEPT ![ops + 1] = Append(@, ConfigMsg(c))]
  /\ initialized' = TRUE
  /\ init' = [outcome |-> o, ret |-> GoTrue, before |-> initialized]
  /\ UNCHANGED logStatus

\* The statements of InitializeStream (lines 254-313), with the outcome o of
\* its calls to speech.NewClient, client.StreamingRecognize and stream.Send;
\* the function takes no lock.
InitializeBody(c, o) ==
  /\ CanStart
  /\ ops' = ops + 1
  \* line 274: ctx, cancel = context.WithCancel(context.Background())
  /\ ctx' = ops + 1
  /\ cancel' = ops + 1
  /\ \/ Init_ClientFails(o)
     \/ Init_StreamFails(o)
     \/ Init_SendFails(o)
     \/ Init_Succeeds(c, o)
  /\ EndCloseRun
  /\ UNCHANGED <<locks, cancelled, fault, pc, snd, rcv>>
  /\ UNCHANGED <<query, delivered>>

\* func InitializeStream (lines 254-313), called while no other call runs.
InitializeStream(c, o) == InitAllowed /\ InitializeBody(c, o)

\* func InitializeStream called by the host while a SendAudio call is in
\* progress (anywhere between its chunk writes or inside one) and no
\* CloseStream or ReceiveTranscript call runs.
InitializeDuringSend(c, o) ==
  /\ \E t \in Senders : pc[t] \notin {"idle", "panic"}
  /\ \A t \in Receivers \cup Closers : pc[t] = "idle"
  /\ InitializeBody(c, o)

\* ----------------------------------------------------------- CloseStream
\* line 522: cancel(), before any lock is taken; calling a nil func panics.
C_Cancel(t) ==
  /\ CanStart
  /\ pc[t] = "idle"
  /\ ops' = ops + 1
  /\ cls' = [cls EXCEPT !.fresh = (cancel = Nil)]
  /\ IF cancel = Nil
       THEN /\ fault' = "nil func call: cancel"
            /\ pc' = [pc EXCEPT ![t] = "panic"]
            /\ UNCHANGED cancelled
       ELSE /\ cancelled' = cancelled \cup {cancel}
            /\ pc' = [pc EXCEPT ![t] = "c_lockSend"]
            /\ UNCHANGED fault
  /\ UNCHANGED <<globals, locks, wire, init, snd, rcv>>
  /\ UNCHANGED <<query, delivered>>

\* A variant of C_LockSend that goes on without the send lock.
C_LockSend_Skipped(t) ==
  /\ Running
  /\ pc[t] = "c_lockSend"
  /\ pc' = [pc EXCEPT ![t] = "c_lockRecv"]
  /\ UNCHANGED <<globals, locks, cancelled, wire, fault, ops, init, snd, rcv, cls>>
  /\ UNCHANGED <<query, delivered>>

\* line 524: sendMutex.Lock()
C_LockSend(t) ==
  /\ Running
  /\ pc[t] = "c_lockSend"
  /\ sendMutex = Free
  /\ pc' = [pc EXCEPT ![t] = "c_lockRecv"]
  /\ sendMutex' = t
  /\ UNCHANGED <<globals, receiveMutex, cancelled, wire, fault, ops, init, snd, rcv, cls>>
  /\ UNCHANGED <<query, delivered>>

\* line 525: receiveMutex.Lock()
C_LockRecv(t) ==
  /\ Running
  /\ pc[t] = "c_lockRecv"
  /\ receiveMutex = Free
  /\ pc' = [pc EXCEPT ![t] = "c_clear"]
  /\ receiveMutex' = t
  /\ UNCHANGED <<globals, sendMutex, cancelled, wire, fault, ops, init, snd, rcv, cls>>
  /\ UNCHANGED <<query, delivered>>

\* A variant of C_Clear that leaves initialized as it is.
C_Clear_KeepsInitialized(t) ==
  /\ Running
  /\ pc[t] = "c_clear"
  /\ pc' = [pc EXCEPT ![t] = "c_unlockRecv"]
  /\ stream' = Nil
  /\ ctx' = Nil
  /\ UNCHANGED <<cancel, logStatus, initialized, locks, cancelled, wire, fault,
                 ops, init, snd, rcv, cls>>
  /\ UNCHANGED <<query, delivered>>

\* lines 526-529: stream = nil; client = nil; ctx = nil; initialized = false
C_Clear(t) ==
  /\ Running
  /\ pc[t] = "c_clear"
  /\ pc' = [pc EXCEPT ![t] = "c_unlockRecv"]
  /\ stream' = Nil
  /\ ctx' = Nil
  /\ initialized' = FALSE
  /\ UNCHANGED <<cancel, logStatus, locks, cancelled, wire, fault, ops, init, snd, rcv, cls>>
  /\ UNCHANGED <<query, delivered>>

\* A variant of C_UnlockRecv that goes on without the unlock.
C_UnlockRecv_Skipped(t) ==
  /\ Running
  /\ pc[t] = "c_unlockRecv"
  /\ pc' = [pc EXCEPT ![t] = "c_unlockSend"]
  /\ UNCHANGED <<globals, locks, cancelled, wire, fault, ops, init, snd, rcv, cls>>
  /\ UNCHANGED <<query, delivered>>

\* line 530: receiveMutex.Unlock()
C_UnlockRecv(t) ==
  /\ Running
  /\ pc[t] = "c_unlockRecv"
  /\ pc' = [pc EXCEPT ![t] = "c_unlockSend"]
  /\ receiveMutex' = Free
  /\ UNCHANGED <<globals, sendMutex, cancelled, wire, fault, ops, init, snd, rcv, cls>>
  /\ UNCHANGED <<query, delivered>>

\* line 531: sendMutex.Unlock(), and the return (line 532)
C_UnlockSend(t) ==
  /\ Running
  /\ pc[t] = "c_unlockSend"
  /\ pc' = [pc EXCEPT ![t] = "idle"]
  /\ sendMutex' = Free
  /\ cls' = [cls EXCEPT !.run = @ + 1,
                        !.snap = <<initialized, stream, logStatus>>]
  /\ UNCHANGED <<globals, receiveMutex, cancelled, wire, fault, ops, init, snd, rcv>>
  /\ UNCHANGED <<query, delivered>>

CloseStream(t) ==
  \/ C_Cancel(t)
  \/ C_LockSend(t)
  \/ C_LockRecv(t)
  \/ C_Clear(t)
  \/ C_UnlockRecv(t)
  \/ C_UnlockSend(t)

\* -------------------------------------------------------------- SendAudio
\* The recordings handed to SendAudio: sample i of a recording.
SampleAt(i) == ((i * 7919) % 65536) - 32768

\* The recording of n samples.
Recording(n) ==
  IF n = 4 THEN <<100, -100, 0, 32000>> ELSE [i \in 1..n |-> SampleAt(i)]

\* The values of recordingLength the callers use.
SampleCounts == {0, 1, 4, 511, 512, MaxSamples, 1024, 1025}

\* The values used where several calls run concurrently.
FewSampleCounts == {0, MaxSamples}

\* A C.short as the 16 bits binary.Write encodes.
Uint16(v) == v % 65536

\* A variant of LittleEndian that writes the high byte first.
LittleEndian_HighFirst(samples) ==
  [i \in 1..(2 * Len(samples)) |->
     IF i % 2 = 1 THEN Uint16(samples[(i + 1) \div 2]) \div 256
                  ELSE Uint16(samples[i \div 2]) % 256]

\* binary.Write(temporaryByteBuffer, binary.LittleEndian, list), line 351:
\* two bytes per sample, low byte first.
LittleEndian(samples) ==
  [i \in 1..(2 * Len(samples)) |->
     IF i % 2 = 1 THEN Uint16(samples[(i + 1) \div 2]) % 256
                  ELSE Uint16(samples[i \div 2]) \div 256]

\* The content of temporaryByteBuffer in a call with recordingLength n; the
\* call's reads advance the buffer's read offset and leave the content alone.
ByteBuffer == [n \in SampleCounts |-> LittleEndian(Recording(n))]

\* A variant of ReadCount with a pipeline one byte shorter.
ReadCount_Short(len, off) ==
  Min(PipelineSize - 1, Len(ByteBuffer[len]) - off)

\* n of n, err := temporaryByteBuffer.Read(pipeline), line 368: the number of
\* bytes copied into the pipeline; 0 (with io.EOF) when the buffer is drained.
ReadCount(len, off) == Min(PipelineSize, Len(ByteBuffer[len]) - off)

\* pipeline[:n] after the Read of n bytes that started at read offset from.
Pipeline(len, from, n) == SubSeq(ByteBuffer[len], from + 1, from + n)

\* AudioContent of the audio message m.
AudioContent(m) == Pipeline(m.length, m.from, m.n)

\* SendAudio returns r: its locals are gone; what the caller passed and got
\* stays visible (clean: every state check passed and every write returned nil).
Returned(s, r, clean) ==
  [s EXCEPT !.ret = r, !.clean = clean, !.n = 0, !.off = 0, !.err = None,
            !.stream = Nil]

\* lines 368-375 on the locals s of a call: read the next chunk into the
\* pipeline, or return 1 at the end of the buffer (io.EOF).
ReadNext(s) ==
  LET n == ReadCount(s.length, s.off) IN
    IF n = 0 THEN Returned(s, GoTrue, s.clean)
             ELSE [s EXCEPT !.n = n, !.off = @ + n, !.err = None]

\* Where the call is after ReadNext.
AfterRead(s) == IF ReadCount(s.length, s.off) = 0 THEN "idle" ELSE "s_lock"

\* lines 336-375: the call starts, the len samples are encoded into the
\* buffer, and the first chunk is read.
S_Start(t, len) ==
  /\ CanStart
  /\ pc[t] = "idle"
  /\ Concurrent(t)
  /\ ops' = ops + 1
  /\ LET s == [call |-> ops + 1, length |-> len,
               off |-> 0, n |-> 0, err |-> None, ret |-> None,
               stream |-> Nil, clean |-> TRUE, active |-> initialized] IN
       /\ snd' = [snd EXCEPT ![t] = ReadNext(s)]
       /\ pc' = [pc EXCEPT ![t] = AfterRead(s)]
  /\ EndCloseRun
  /\ UNCHANGED <<globals, locks, cancelled, wire, fault, init, rcv>>
  /\ UNCHANGED <<query, delivered>>

\* A variant of S_Lock that does not wait for the mutex.
S_Lock_NoWait(t) ==
  /\ Running
  /\ pc[t] = "s_lock"
  /\ pc' = [pc EXCEPT ![t] = "s_check"]
  /\ sendMutex' = t
  /\ EndCloseRun
  /\ UNCHANGED <<globals, receiveMutex, cancelled, wire, fault, ops, init, snd, rcv>>
  /\ UNCHANGED <<query, delivered>>

\* A variant of S_Lock for a library with one mutex shared by both directions.
S_Lock_SharedMutex(t) ==
  /\ Running
  /\ pc[t] = "s_lock"
  /\ sendMutex = Free
  /\ receiveMutex = Free
  /\ pc' = [pc EXCEPT ![t] = "s_check"]
  /\ sendMutex' = t
  /\ EndCloseRun
  /\ UNCHANGED <<globals, receiveMutex, cancelled, wire, fault, ops, init, snd, rcv>>
  /\ UNCHANGED <<query, delivered>>

\* line 378: sendMutex.Lock()
S_Lock(t) ==
  /\ Running
  /\ pc[t] = "s_lock"
  /\ sendMutex = Free
  /\ pc' = [pc EXCEPT ![t] = "s_check"]
  /\ sendMutex' = t
  /\ EndCloseRun
  /\ UNCHANGED <<globals, receiveMutex, cancelled, wire, fault, ops, init, snd, rcv>>
  /\ UNCHANGED <<query, delivered>>

\* A variant of S_NotInitialized that returns without the unlock.
S_NotInitialized_KeepsLock(t) ==
  /\ pc' = [pc EXCEPT ![t] = "idle"]
  /\ logStatus' = ErrNotInitialized
  /\ snd' = [snd EXCEPT ![t] = Returned(snd[t], GoTrue, FALSE)]
  /\ UNCHANGED <<sendMutex, fault>>

\* lines 380-386: the stream is not initialized: unlock, log, return 1.
S_NotInitialized(t) ==
  /\ pc' = [pc EXCEPT ![t] = "idle"]
  /\ sendMutex' = Free
  /\ logStatus' = ErrNotInitialized
  /\ snd' = [snd EXCEPT ![t] = Returned(snd[t], GoTrue, FALSE)]
  /\ UNCHANGED fault

\* lines 380-388: the state check under the lock; when it passes, stream.Send
\* is called (a method call on a nil interface panics).
S_Check(t) ==
  /\ Running
  /\ pc[t] = "s_check"
  /\ IF initialized = FALSE
       THEN S_NotInitialized(t)
       ELSE IF stream = Nil
         THEN /\ pc' = [pc EXCEPT ![t] = "panic"]
              /\ fault' = "nil stream: Send"
              /\ UNCHANGED <<sendMutex, logStatus, snd>>
         ELSE /\ pc' = [pc EXCEPT ![t] = "s_send"]
              /\ snd' = [snd EXCEPT ![t].stream = stream]
              /\ UNCHANGED <<sendMutex, logStatus, fault>>
  /\ EndCloseRun
  /\ UNCHANGED <<ctx, cancel, stream, initialized, receiveMutex, cancelled,
                 wire, ops, init, rcv>>
  /\ UNCHANGED <<query, delivered>>

\* What stream.Send can return on stream k: context.Canceled once the stream's
\* context is cancelled; before that, nil (the message is accepted) or an error.
SendErrors(k) == IF k \in cancelled THEN {"Canceled"} ELSE {"nil", "error"}

\* lines 388-394: stream.Send returns e, then sendMutex.Unlock().
S_Send(t, e) ==
  /\ Running
  /\ pc[t] = "s_send"
  /\ e \in SendErrors(snd[t].stream)
  /\ pc' = [pc EXCEPT ![t] = "s_result"]
  /\ wire' = IF e = "nil"
               THEN [wire EXCEPT ![snd[t].stream] =
                       Append(@, AudioMsg(t, snd[t].call, snd[t].length,
                                          snd[t].off - snd[t].n, snd[t].n))]
               ELSE wire
  /\ snd' = [snd EXCEPT ![t].err = e,
                        ![t].clean = (@ /\ e = "nil")]
  /\ sendMutex' = Free
  /\ EndCloseRun
  /\ UNCHANGED <<globals, receiveMutex, cancelled, fault, ops, init, rcv>>
  /\ UNCHANGED <<query, delivered>>

\* lines 396-398: err == context.Canceled: return 1.
S_Canceled(t) ==
  /\ pc' = [pc EXCEPT ![t] = "idle"]
  /\ snd' = [snd EXCEPT ![t] = Returned(snd[t], GoTrue, snd[t].clean)]
  /\ UNCHANGED logStatus

\* A variant of S_Continue that writes the chunk in the pipeline again.
S_Continue_Rereads(t) ==
  /\ pc' = [pc EXCEPT ![t] = "s_lock"]
  /\ snd' = [snd EXCEPT ![t].err = None]
  /\ UNCHANGED logStatus

\* lines 368-375: the write returned nil: the loop reads the next chunk.
S_Continue(t) ==
  /\ pc' = [pc EXCEPT ![t] = AfterRead(snd[t])]
  /\ snd' = [snd EXCEPT ![t] = ReadNext(snd[t])]
  /\ UNCHANGED logStatus

\* A variant of S_Failed that logs the error and goes on with the next chunk.
S_Failed_Continues(t) ==
  /\ pc' = [pc EXCEPT ![t] = AfterRead(snd[t])]
  /\ logStatus' = ErrSendAudio
  /\ snd' = [snd EXCEPT ![t] = ReadNext(snd[t])]

\* A variant of S_Failed that does not write logStatus.
S_Failed_Silent(t) ==
  /\ pc' = [pc EXCEPT ![t] = "idle"]
  /\ snd' = [snd EXCEPT ![t] = Returned(snd[t], GoFalse, snd[t].clean)]
  /\ UNCHANGED logStatus

\* lines 399-402: another error: log it, return 0.
S_Failed(t) ==
  /\ pc' = [pc EXCEPT ![t] = "idle"]
  /\ logStatus' = ErrSendAudio
  /\ snd' = [snd EXCEPT ![t] = Returned(snd[t], GoFalse, snd[t].clean)]

\* A variant of S_Result in which a failed write ends the session.
S_Result_Deactivates(t) ==
  /\ Running
  /\ pc[t] = "s_result"
  /\ IF snd[t].err = "Canceled" THEN S_Canceled(t)
     ELSE IF snd[t].err # "nil" THEN S_Failed(t)
     ELSE S_Continue(t)
  /\ initialized' = (initialized /\ snd[t].err \in {"Canceled", "nil"})
  /\ EndCloseRun
  /\ UNCHANGED <<ctx, cancel, stream, locks, cancelled, wire,
                 fault, ops, init, rcv>>
  /\ UNCHANGED <<query, delivered>>

\* lines 396-403, then 368-375: the result of the write ends the call, or the
\* loop reads the next chunk.
S_Result(t) ==
  /\ Running
  /\ pc[t] = "s_result"
  /\ IF snd[t].err = "Canceled" THEN S_Canceled(t)
     ELSE IF snd[t].err # "nil" THEN S_Failed(t)
     ELSE S_Continue(t)
  /\ EndCloseRun
  /\ UNCHANGED <<ctx, cancel, stream, initialized, locks, cancelled, wire,
                 fault, ops, init, rcv>>
  /\ UNCHANGED <<query, delivered>>

\* The steps of a SendAudio call after its start.
S_Steps(t) ==
  \/ S_Lock(t)
  \/ S_Check(t)
  \/ \E e \in {"nil", "error", "Canceled"} : S_Send(t, e)
  \/ S_Result(t)

\* ------------------------------------------------------ ReceiveTranscript
\* Strings are sequences of characters.
Test == <<"t", "e", "s", "t">>
Hello == <<"h", "e", "l", "l", "o">>
SpWorld == <<" ", "w", "o", "r", "l", "d">>
SpFoo == <<" ", "f", "o", "o">>
Space == <<" ">>

\* The transcripts the remote service puts into alternatives.
Transcripts == {<<>>, <<"a">>, <<" ", "a">>, <<";">>}

\* The alternatives of one result: up to two transcripts.
AlternativeLists ==
  {<<>>} \cup {<<x>> : x \in Transcripts}
         \cup {<<x, y>> : x \in Transcripts, y \in Transcripts}
         \cup {<<Test>>, <<Hello, SpWorld>>, <<SpFoo>>, <<Space>>}

\* A StreamingRecognizeResponse: its Error field set or not, and its Results,
\* each the list of its alternatives' transcripts.
Response(e, rs) == [error |-> e, results |-> rs]

\* The responses the remote service sends: no result, one result, or two
\* results the second of which has one alternative.
Responses ==
  {Response(FALSE, <<>>), Response(TRUE, <<>>)}
    \cup {Response(FALSE, <<as>>) : as \in AlternativeLists}
    \cup {Response(FALSE, <<as, <<x>>>>) :
            as \in AlternativeLists, x \in Transcripts}

\* The responses used where several calls run concurrently.
FewResponses ==
  {Response(FALSE, <<>>), Response(TRUE, <<>>), Response(FALSE, <<<<Test>>>>)}

\* lines 462-471: one alternative's contribution to helperString.
Segment(transcript) ==
  IF Len(transcript) > 0 /\ transcript[1] = " "
    THEN Tail(transcript) \o <<";">>
    ELSE transcript \o <<";">>

RECURSIVE Segments(_)
\* lines 460-472: the alternatives of one result, in order.
Segments(alternatives) ==
  IF alternatives = <<>> THEN <<>>
  ELSE Segment(Head(alternatives)) \o Segments(Tail(alternatives))

RECURSIVE HelperString(_)
\* lines 455-473: helperString after the loops over results and alternatives.
HelperString(results) ==
  IF results = <<>> THEN <<>>
  ELSE Segments(Head(results)) \o HelperString(Tail(results))

\* lines 478-495: the string stored through output, or the panic of an index
\* expression (helperString[0]) or a slice expression (helperString[1:0]).
Output(h) ==
  IF Len(h) = 0 THEN [panic |-> "index out of range", text |-> None]
  ELSE IF h[1] = ";" /\ h[Len(h)] = ";"
    THEN IF Len(h) = 1
           THEN [panic |-> "slice bounds out of range", text |-> None]
           ELSE [panic |-> None, text |-> SubSeq(h, 2, Len(h) - 1)]
  ELSE IF h[1] # ";" /\ h[Len(h)] = ";"
    THEN [panic |-> None, text |-> SubSeq(h, 1, Len(h) - 1)]
  ELSE IF h[1] = ";" /\ h[Len(h)] # ";"
    THEN [panic |-> None, text |-> SubSeq(h, 2, Len(h))]
  ELSE [panic |-> None, text |-> h]

\* line 425: the call starts; the caller's output variable holds no string.
R_Start(t) ==
  /\ CanStart
  /\ pc[t] = "idle"
  /\ Concurrent(t)
  /\ ops' = ops + 1
  /\ rcv' = [rcv EXCEPT ![t] =
               [call |-> ops + 1, resp |-> None, err |-> None, ret |-> None,
                output |-> None, stream |-> Nil, seq |-> 0,
                active |-> initialized]]
  /\ pc' = [pc EXCEPT ![t] = "r_lock"]
  /\ EndCloseRun
  /\ UNCHANGED <<globals, locks, cancelled, wire, fault, init, snd>>
  /\ UNCHANGED <<query, delivered>>

\* A variant of R_Lock that does not wait for the mutex.
R_Lock_NoWait(t) ==
  /\ Running
  /\ pc[t] = "r_lock"
  /\ pc' = [pc EXCEPT ![t] = "r_check"]
  /\ receiveMutex' = t
  /\ EndCloseRun
  /\ UNCHANGED <<globals, sendMutex, cancelled, wire, fault, ops, init, snd, rcv>>
  /\ UNCHANGED <<query, delivered>>

\* line 428: receiveMutex.Lock()
R_Lock(t) ==
  /\ Running
  /\ pc[t] = "r_lock"
  /\ receiveMutex = Free
  /\ pc' = [pc EXCEPT ![t] = "r_check"]
  /\ receiveMutex' = t
  /\ EndCloseRun
  /\ UNCHANGED <<globals, sendMutex, cancelled, wire, fault, ops, init, snd, rcv>>
  /\ UNCHANGED <<query, delivered>>

\* A variant of R_NotInitialized that does not write logStatus.
R_NotInitialized_Silent(t) ==
  /\ pc' = [pc EXCEPT ![t] = "idle"]
  /\ receiveMutex' = Free
  /\ rcv' = [rcv EXCEPT ![t].ret = GoFalse]
  /\ UNCHANGED <<logStatus, fault>>

\* lines 430-434: the stream is not initialized: unlock, log, return 0.
R_NotInitialized(t) ==
  /\ pc' = [pc EXCEPT ![t] = "idle"]
  /\ receiveMutex' = Free
  /\ logStatus' = ErrNotInitialized
  /\ rcv' = [rcv EXCEPT ![t].ret = GoFalse]
  /\ UNCHANGED fault

\* lines 430-436: the state check under the lock; when it passes, stream.Recv
\* is called (a method call on a nil interface panics).
R_Check(t) ==
  /\ Running
  /\ pc[t] = "r_check"
  /\ IF initialized = FALSE
       THEN R_NotInitialized(t)
       ELSE IF stream = Nil
         THEN /\ pc' = [pc EXCEPT ![t] = "panic"]
              /\ fault' = "nil stream: Recv"
              /\ UNCHANGED <<receiveMutex, logStatus, rcv>>
         ELSE /\ pc' = [pc EXCEPT ![t] = "r_recv"]
              /\ rcv' = [rcv EXCEPT ![t].stream = stream,
                                    ![t].seq = delivered[stream] + 1]
              /\ UNCHANGED <<receiveMutex, logStatus, fault>>
  /\ EndCloseRun
  /\ UNCHANGED <<ctx, cancel, stream, initialized, sendMutex, cancelled,
                 wire, ops, init, snd>>
  /\ UNCHANGED <<query, delivered>>

\* What stream.Recv can return on stream k besides a response:
\* context.Canceled once the stream's context is cancelled; before that,
\* io.EOF or another error.
RecvErrors(k) == IF k \in cancelled THEN {"Canceled"} ELSE {"EOF", "error"}

\* lines 436-437: stream.Recv returns the response r with a nil error (the
\* message at the position the call started to read at), then
\* receiveMutex.Unlock().
R_RecvResponse(t, r) ==
  /\ Running
  /\ pc[t] = "r_recv"
  /\ rcv[t].stream \notin cancelled
  /\ pc' = [pc EXCEPT ![t] = "r_process"]
  /\ rcv' = [rcv EXCEPT ![t].resp = r, ![t].err = "nil"]
  /\ delivered' = [delivered EXCEPT ![rcv[t].stream] = rcv[t].seq]
  /\ receiveMutex' = Free
  /\ EndCloseRun
  /\ UNCHANGED <<globals, sendMutex, cancelled, wire, fault, ops, init, snd>>
  /\ UNCHANGED query

\* lines 436-437: stream.Recv returns the error e, then receiveMutex.Unlock().
R_RecvError(t, e) ==
  /\ Running
  /\ pc[t] = "r_recv"
  /\ e \in RecvErrors(rcv[t].stream)
  /\ pc' = [pc EXCEPT ![t] = "r_process"]
  /\ rcv' = [rcv EXCEPT ![t].err = e]
  /\ receiveMutex' = Free
  /\ EndCloseRun
  /\ UNCHANGED <<globals, sendMutex, cancelled, wire, fault, ops, init, snd>>
  /\ UNCHANGED <<query, delivered>>

\* lines 440-442: err == context.Canceled: return 1; output is not written.
R_Canceled(t) ==
  /\ pc' = [pc EXCEPT ![t] = "idle"]
  /\ rcv' = [rcv EXCEPT ![t].ret = GoTrue, ![t].stream = Nil]
  /\ UNCHANGED <<logStatus, fault>>

\* lines 445-448: another error of stream.Recv (io.EOF included): log, return 0.
R_Failed(t) ==
  /\ pc' = [pc EXCEPT ![t] = "idle"]
  /\ logStatus' = IF rcv[t].err = "EOF" THEN ErrRecvEOF ELSE ErrRecvOther
  /\ rcv' = [rcv EXCEPT ![t].ret = GoFalse, ![t].stream = Nil]
  /\ UNCHANGED fault

\* A variant of R_RemoteError that does not look at resp.Error.
R_RemoteError_Ignored(t) ==
  /\ pc' = [pc EXCEPT ![t] = "idle"]
  /\ rcv' = [rcv EXCEPT ![t].output = <<>>, ![t].ret = GoTrue, ![t].stream = Nil]
  /\ UNCHANGED <<logStatus, fault>>

\* lines 450-453: resp.Error is set: log, return 0.
R_RemoteError(t) ==
  /\ pc' = [pc EXCEPT ![t] = "idle"]
  /\ logStatus' = ErrRecognize
  /\ rcv' = [rcv EXCEPT ![t].ret = GoFalse, ![t].stream = Nil]
  /\ UNCHANGED fault

\* A variant of R_Normalize that goes back for another message.
R_Normalize_Loops(t) ==
  /\ pc' = [pc EXCEPT ![t] = "r_recv"]
  /\ UNCHANGED <<logStatus, fault, rcv>>

\* lines 455-496: the normalization of the response into output, return 1.
R_Normalize(t) ==
  LET out == Output(HelperString(rcv[t].resp.results)) IN
    IF out.panic # None
      THEN /\ pc' = [pc EXCEPT ![t] = "panic"]
           /\ fault' = out.panic
           /\ UNCHANGED <<logStatus, rcv>>
      ELSE /\ pc' = [pc EXCEPT ![t] = "idle"]
           /\ rcv' = [rcv EXCEPT ![t].output = out.text,
                                 ![t].ret = GoTrue, ![t].stream = Nil]
           /\ UNCHANGED <<logStatus, fault>>

\* lines 439-496: error handling, then the normalization of the response.
R_Process(t) ==
  /\ Running
  /\ pc[t] = "r_process"
  /\ IF rcv[t].err = "Canceled" THEN R_Canceled(t)
     ELSE IF rcv[t].err # "nil" THEN R_Failed(t)
     ELSE IF rcv[t].resp.error THEN R_RemoteError(t)
     ELSE R_Normalize(t)
  /\ EndCloseRun
  /\ UNCHANGED <<ctx, cancel, stream, initialized, locks, cancelled, wire,
                 ops, init, snd>>
  /\ UNCHANGED <<query, delivered>>

\* The steps of a ReceiveTranscript call after its start and before the
\* receive returns, and after it.
R_Steps(t) ==
  \/ R_Lock(t)
  \/ R_Check(t)
  \/ \E e \in {"EOF", "error", "Canceled"} : R_RecvError(t, e)
  \/ R_Process(t)

\* ------------------------------------------------------ the specifications
\* Every caller, with the few inputs.
Next ==
  \/ \E c \in Configs, o \in InitOutcomes : InitializeStream(c, o)
  \/ \E t \in Senders, len \in FewSampleCounts : S_Start(t, len)
  \/ \E t \in Senders : S_Steps(t)
  \/ \E t \in Receivers : R_Start(t)
  \/ \E t \in Receivers : R_Steps(t)
  \/ \E t \in Receivers, r \in FewResponses : R_RecvResponse(t, r)
  \/ \E t \in Closers : CloseStream(t)

Spec == Init /\ [][Next]_vars

\* One caller of SendAudio, with every recording, and CloseStream.
NextSend ==
  \/ \E c \in Configs, o \in InitOutcomes : InitializeStream(c, o)
  \/ \E len \in SampleCounts : S_Start("s1", len)
  \/ S_Steps("s1")
  \/ \E t \in Closers : CloseStream(t)

SpecSend == Init /\ [][NextSend]_vars

\* One caller of ReceiveTranscript, with every response, and CloseStream.
NextRecv ==
  \/ \E c \in Configs, o \in InitOutcomes : InitializeStream(c, o)
  \/ R_Start("r1")
  \/ R_Steps("r1")
  \/ \E r \in Responses : R_RecvResponse("r1", r)
  \/ \E t \in Closers : CloseStream(t)

SpecRecv == Init /\ [][NextRecv]_vars

\* One caller of each operation, with the few inputs, and a host that reads
\* the log and the state between and during the calls.
NextQuery ==
  \/ \E c \in Configs, o \in InitOutcomes : InitializeStream(c, o)
  \/ \E len \in FewSampleCounts : S_Start("s1", len)
  \/ S_Steps("s1")
  \/ R_Start("r1")
  \/ R_Steps("r1")
  \/ \E r \in FewResponses : R_RecvResponse("r1", r)
  \/ \E t \in Closers : CloseStream(t)
  \/ Call_GetLog
  \/ Call_IsInitialized

SpecQuery == Init /\ [][NextQuery]_vars

\* The recording of four samples and the response with the single
\* alternative "test": one sender, one receiver, CloseStream.
ScenarioRecording == <<100, -100, 0, 32000>>
ScenarioSamples == Len(ScenarioRecording)
ScenarioResponse == Response(FALSE, <<<<Test>>>>)

NextScenario ==
  \/ \E c \in Configs, o \in InitOutcomes : InitializeStream(c, o)
  \/ S_Start("s1", ScenarioSamples)
  \/ S_Steps("s1")
  \/ R_Start("r1")
  \/ R_Steps("r1")
  \/ R_RecvResponse("r1", ScenarioResponse)
  \/ \E t \in Closers : CloseStream(t)

SpecScenario == Init /\ [][NextScenario]_vars

\* One caller of SendAudio with a recording of two chunks, CloseStream, and
\* a host that also calls InitializeStream while the SendAudio call runs.
NextReinit ==
  \/ \E c \in Configs, o \in InitOutcomes : InitializeStream(c, o)
  \/ \E c \in Configs, o \in InitOutcomes : InitializeDuringSend(c, o)
  \/ S_Start("s1", MaxSamples)
  \/ S_Steps("s1")
  \/ \E t \in Closers : CloseStream(t)

SpecReinit == Init /\ [][NextReinit]_vars

\* stream.Send of the call of t returns, and stream.Recv of the call of t
\* returns.
SendCompletes(t) == \E e \in {"nil", "error", "Canceled"} : S_Send(t, e)

RecvCompletes(t) ==
  \/ \E e \in {"EOF", "error", "Canceled"} : R_RecvError(t, e)
  \/ \E r \in FewResponses : R_RecvResponse(t, r)

\* The scheduler runs every thread that can take a step, and a mutex that
\* is free again and again is handed to each waiting Lock() (sync.Mutex hands
\* the lock to a starving waiter). The host is free to make no further call.
ThreadsRun ==
  /\ \A t \in Senders :
       SF_pc(S_Lock(t)) /\ WF_pc(S_Check(t)) /\ WF_pc(S_Result(t))
  /\ \A t \in Receivers :
       SF_pc(R_Lock(t)) /\ WF_pc(R_Check(t)) /\ WF_pc(R_Process(t))
  /\ \A t \in Closers :
       /\ SF_pc(C_LockSend(t)) /\ SF_pc(C_LockRecv(t))
       /\ WF_pc(C_Clear(t)) /\ WF_pc(C_UnlockRecv(t))
       /\ WF_pc(C_UnlockSend(t))

\* Every caller, with the few inputs, where the threads run and every
\* stream operation returns.
SpecFair ==
  /\ Init /\ [][Next]_vars
  /\ ThreadsRun
  /\ \A t \in Senders : WF_pc(SendCompletes(t))
  /\ \A t \in Receivers : WF_pc(RecvCompletes(t))

\* A remote service that never responds: stream.Send and stream.Recv block
\* until the context of their stream is cancelled.
SendAborted(t) == S_Send(t, "Canceled")

RecvAborted(t) == R_RecvError(t, "Canceled")

NextBlocked ==
  \/ \E c \in Configs, o \in InitOutcomes : InitializeStream(c, o)
  \/ \E t \in Senders, len \in FewSampleCounts : S_Start(t, len)
  \/ \E t \in Senders : S_Lock(t) \/ S_Check(t) \/ S_Result(t)
  \/ \E t \in Senders : SendAborted(t)
  \/ \E t \in Receivers : R_Start(t)
  \/ \E t \in Receivers : R_Lock(t) \/ R_Check(t) \/ R_Process(t)
  \/ \E t \in Receivers : RecvAborted(t)
  \/ \E t \in Closers : CloseStream(t)

\* The threads run, and a cancelled stream operation returns.
SpecBlocked ==
  /\ Init /\ [][NextBlocked]_vars
  /\ ThreadsRun
  /\ \A t \in Senders : WF_pc(SendAborted(t))
  /\ \A t \in Receivers : WF_pc(RecvAborted(t))

\* One caller of SendAudio, with every recording, and CloseStream, where
\* the threads run and every chunk write returns.
SpecSendFair ==
  /\ Init /\ [][NextSend]_vars
  /\ ThreadsRun
  /\ WF_pc(SendCompletes("s1"))

\* ================================================================ claims
\* The client messages of every stream, stream by stream.
RECURSIVE WireUpTo(_)
WireUpTo(k) == IF k = 0 THEN <<>> ELSE WireUpTo(k - 1) \o wire[k]

AllWire == WireUpTo(MaxOps)

\* The audio messages call k wrote, in the order it wrote them.
IsChunkOf(k, m) == m.type = "audio" /\ m.call = k

ChunksOf(k) == SelectSeq(AllWire, LAMBDA m : IsChunkOf(k, m))

\* A SendAudio call of t has returned.
SendReturned(t) == pc[t] = "idle" /\ snd[t].call # 0

\* A ReceiveTranscript call of t has returned.
RecvReturned(t) == pc[t] = "idle" /\ rcv[t].call # 0

\* C1: a SendAudio call attempted while the session is not Active returns
\* failure and writes no chunk to any stream, whatever the sample count.
C1_SendAudioGated ==
  \A t \in Senders :
    (SendReturned(t) /\ ~snd[t].active) =>
      (snd[t].ret = GoFalse /\ ChunksOf(snd[t].call) = <<>>)

\* C2: ReceiveTranscript makes its state check while it holds the receive
\* lock; when the check finds the session not Active the call returns failure,
\* stores the state error in logStatus and calls no receive; a call attempted
\* while the session is not Active always ends that way.
C2_ReceiveTranscriptGated ==
  /\ [](\A t \in Receivers : pc[t] = "r_check" => receiveMutex = t)
  /\ [][\A t \in Receivers :
          (pc[t] = "r_check" /\ IsInitialized = GoFalse /\ pc'[t] # "r_check") =>
            /\ pc'[t] = "idle"
            /\ rcv'[t].ret = GoFalse
            /\ logStatus' = ErrNotInitialized
            /\ rcv'[t].err = None]_vars
  /\ [](\A t \in Receivers :
          (RecvReturned(t) /\ ~rcv[t].active) =>
            (rcv[t].ret = GoFalse /\ rcv[t].err = None))

C2_Witness ==
  \E t \in Receivers :
    /\ RecvReturned(t)
    /\ ~rcv[t].active
    /\ rcv[t].ret = GoFalse
    /\ logStatus = ErrNotInitialized
    /\ receiveMutex = Free

\* The bytes of the chunks cs, in order.
RECURSIVE Concatenation(_)
Concatenation(cs) ==
  IF cs = <<>> THEN <<>>
  ELSE AudioContent(Head(cs)) \o Concatenation(Tail(cs))

\* bytes is the little-endian encoding of the 16-bit samples: two bytes per
\* sample, the low byte first.
IsLittleEndianOf(bytes, samples) ==
  /\ Len(bytes) = 2 * Len(samples)
  /\ \A i \in 1..Len(bytes) : bytes[i] \in 0..255
  /\ \A j \in 1..Len(samples) :
       bytes[2 * j - 1] + 256 * bytes[2 * j] = samples[j] % 65536

\* C3: a SendAudio call of N samples on an Active session, with no write
\* failure and no concurrent Close, returns success after writing exactly
\* ceil(2N / 1024) chunks, each of 1 to 1024 bytes, all but the last of exactly
\* 1024 bytes, 2N bytes in total, whose concatenation is the little-endian
\* encoding of the N samples.
C3_SendAudioChunks ==
  \A t \in Senders :
    (SendReturned(t) /\ snd[t].active /\ snd[t].clean) =>
      LET N == snd[t].length
          cs == ChunksOf(snd[t].call)
          bytes == Concatenation(cs)
      IN /\ snd[t].ret = GoTrue
         /\ Len(cs) = (2 * N + 1023) \div 1024
         /\ \A i \in 1..Len(cs) : Len(AudioContent(cs[i])) \in 1..1024
         /\ \A i \in 1..(Len(cs) - 1) : Len(AudioContent(cs[i])) = 1024
         /\ Len(bytes) = 2 * N
         /\ IsLittleEndianOf(bytes, Recording(N))

C3_Witness ==
  \E t \in Senders :
    /\ SendReturned(t) /\ snd[t].active /\ snd[t].clean
    /\ snd[t].ret = GoTrue
    /\ LET cs == ChunksOf(snd[t].call) IN
         /\ Len(cs) >= 2
         /\ Len(AudioContent(cs[Len(cs)])) < 1024

\* The reference normalization of a response's alternatives.
RefDropSpace(a) == IF a # <<>> /\ Head(a) = " " THEN Tail(a) ELSE a

RECURSIVE RefAlternatives(_)
RefAlternatives(results) ==
  IF results = <<>> THEN <<>>
  ELSE Head(results) \o RefAlternatives(Tail(results))

RECURSIVE RefJoin(_)
RefJoin(as) ==
  IF as = <<>> THEN <<>>
  ELSE IF Len(as) = 1 THEN RefDropSpace(as[1])
  ELSE RefDropSpace(as[1]) \o <<";">> \o RefJoin(Tail(as))

RefStripLeading(x) == IF x # <<>> /\ Head(x) = ";" THEN Tail(x) ELSE x

RefStripTrailing(x) ==
  IF x # <<>> /\ x[Len(x)] = ";" THEN SubSeq(x, 1, Len(x) - 1) ELSE x

RefNormalize(results) ==
  RefStripTrailing(RefStripLeading(RefJoin(RefAlternatives(results))))

\* A ReceiveTranscript call of t has received a response that reports no error.
RecvGotResponse(t) ==
  /\ rcv[t].call # 0
  /\ pc[t] \notin {"r_lock", "r_check", "r_recv", "r_process"}
  /\ rcv[t].err = "nil"
  /\ ~rcv[t].resp.error

\* C4: for every received response without error, ReceiveTranscript returns
\* success and the transcript it outputs is the reference normalization of
\* the response: one leading space dropped per alternative, the alternatives
\* of all results joined in order with ';', then at most one leading and at
\* most one trailing ';' stripped.
C4_TranscriptIsReference ==
  \A t \in Receivers :
    RecvGotResponse(t) =>
      /\ pc[t] = "idle"
      /\ rcv[t].ret = GoTrue
      /\ rcv[t].output = RefNormalize(rcv[t].resp.results)

\* C5: when the received message carries no error and no alternative (no
\* result, or only results without alternatives), ReceiveTranscript returns
\* success and the output transcript is the empty string.
C5_NoAlternativeIsEmpty ==
  \A t \in Receivers :
    (RecvGotResponse(t) /\ RefAlternatives(rcv[t].resp.results) = <<>>) =>
      /\ pc[t] = "idle"
      /\ rcv[t].ret = GoTrue
      /\ rcv[t].output = <<>>

\* C6: under every interleaving of CloseStream with SendAudio and
\* ReceiveTranscript calls in flight, CloseStream clears the stream and the
\* state only while it holds both locks and no write and no receive is in
\* progress, no call reaches Send or Recv with a nil stream, and no fault is
\* raised.
C6_CloseIsSafe ==
  /\ \A c \in Closers :
       pc[c] = "c_clear" =>
         /\ sendMutex = c /\ receiveMutex = c
         /\ \A t \in Senders : pc[t] # "s_send"
         /\ \A t \in Receivers : pc[t] # "r_recv"
  /\ \A t \in Senders : pc[t] = "s_send" => stream # Nil
  /\ \A t \in Receivers : pc[t] = "r_recv" => stream # Nil
  /\ fault = None

\* C7: when a CloseStream call returns, IsInitialized() is 0 whatever the
\* state was before; a second CloseStream made immediately after the first
\* raises no fault and leaves the state, the stream and logStatus as the
\* first left them.
C7_CloseIdempotent ==
  /\ [][\A c \in Closers :
          (pc[c] = "c_unlockSend" /\ pc'[c] = "idle") =>
            /\ IsInitialized' = GoFalse
            /\ cls.run >= 1 => <<initialized', stream', logStatus'>> = cls.snap]_vars
  /\ [][\A c \in Closers :
          (cls.run >= 1 /\ pc[c] # pc'[c]) => fault' = None]_vars

C7_Witness ==
  /\ cls.run >= 2
  /\ pc["c1"] = "idle"
  /\ IsInitialized = GoFalse
  /\ stream = Nil
  /\ fault = None

\* C8: CloseStream called when InitializeStream was never called is a
\* harmless no-op: it raises no fault.
C8_CloseBeforeInitialize ==
  cls.fresh => fault = None

\* An InitializeStream call returns in this step.
InitializeReturns == cancel' # cancel

\* The error text of a failed InitializeStream.
InitError(o) ==
  IF o = "client_fail" THEN ErrNewClient
  ELSE IF o = "stream_fail" THEN ErrStreamingRecognize
  ELSE ErrConfigSend

\* C9: InitializeStream returns success, with the session Active, exactly
\* when the client construction, the opening of the stream and the sending
\* of the configuration all succeed; when one of them fails it returns
\* failure, overwrites logStatus, performs none of the later steps and does
\* not set the session Active: called on a session that is not Active it
\* leaves IsInitialized() at 0.
C9_InitializeOutcome ==
  [][InitializeReturns =>
       /\ init'.ret = GoTrue <=> init'.outcome = "ok"
       /\ init'.ret = GoFalse <=> init'.outcome # "ok"
       /\ init'.ret = GoTrue =>
            /\ IsInitialized' = GoTrue
            /\ stream' # Nil
            /\ wire'[stream'] = <<ConfigMsg(CHOOSE c \in Configs : TRUE)>>
       /\ init'.ret = GoFalse =>
            /\ logStatus' = InitError(init'.outcome)
            /\ wire' = wire
            /\ init'.outcome = "client_fail" => stream' = stream
            /\ init'.outcome = "stream_fail" => stream' = Nil
            /\ initialized' = initialized
            /\ IsInitialized = GoFalse => IsInitialized' = GoFalse]_vars

C9_Witness ==
  /\ init.outcome = "send_fail"
  /\ init.ret = GoFalse
  /\ ~init.before
  /\ IsInitialized = GoFalse
  /\ logStatus = ErrConfigSend
  /\ cancel = ops

\* C10: after a failed InitializeStream, IsInitialized() is 0 whatever the
\* state was before the call, Active included.
C10_FailedInitializeNotActive ==
  [][(InitializeReturns /\ init'.ret = GoFalse) => IsInitialized' = GoFalse]_vars

\* No CloseStream call is between its first and its last statement
\* (InitializeStream runs while no other call is in flight).
NoLifecycleCallRunning == \A c \in Closers : pc[c] = "idle"

\* C11: in every state in which no InitializeStream and no CloseStream is
\* executing, the stream is non-nil if and only if the session is Active;
\* also after a failed InitializeStream and after CloseStream.
C11_StreamIffActive ==
  NoLifecycleCallRunning => (stream # Nil <=> IsInitialized = GoTrue)

\* The calls that are inside stream.Send, and those inside stream.Recv.
Writing == {t \in Senders : pc[t] = "s_send"}
Receiving == {t \in Receivers : pc[t] = "r_recv"}

\* C12: two chunk writes of SendAudio calls are never in progress at the
\* same time, and two receives of ReceiveTranscript calls are never in
\* progress at the same time.
C12_LockExclusivity ==
  /\ Cardinality(Writing) <= 1
  /\ Cardinality(Receiving) <= 1
  /\ \A t \in Writing : sendMutex = t
  /\ \A t \in Receiving : receiveMutex = t

C12_Witness ==
  /\ pc["s1"] = "s_send"
  /\ pc["s2"] = "s_lock"
  /\ sendMutex = "s1"
  /\ fault = None

\* t is inside a SendAudio call and is not waiting for a mutex that another
\* call holds.
SenderCanRun(t) ==
  /\ Running
  /\ pc[t] \in {"s_lock", "s_check", "s_send", "s_result"}
  /\ pc[t] = "s_lock" => sendMutex = Free

\* t is inside a ReceiveTranscript call and is not waiting for a mutex that
\* another call holds.
ReceiverCanRun(t) ==
  /\ Running
  /\ pc[t] \in {"r_lock", "r_check", "r_recv", "r_process"}
  /\ pc[t] = "r_lock" => receiveMutex = Free

\* C13: a chunk write and a blocking receive can be in progress at the same
\* time: a ReceiveTranscript call inside its receive never keeps a SendAudio
\* call from taking its next step, and a SendAudio call inside a chunk write
\* never keeps a ReceiveTranscript call from taking its next step.
C13_SendReceiveOverlap ==
  /\ \A t \in Senders : SenderCanRun(t) => ENABLED S_Steps(t)
  /\ \A t \in Receivers :
       ReceiverCanRun(t) =>
         ENABLED (R_Steps(t) \/ \E r \in FewResponses : R_RecvResponse(t, r))

C13_Witness ==
  /\ pc["s1"] = "s_send"
  /\ pc["r1"] = "r_recv"
  /\ sendMutex = "s1"
  /\ receiveMutex = "r1"
  /\ fault = None

\* t is inside a SendAudio call.
SendInProgress(t) == pc[t] \in {"s_lock", "s_check", "s_send", "s_result"}

\* The number of chunk writes a call with n samples needs.
ChunksNeeded(n) == (2 * n + 1023) \div 1024

\* C14: once CloseStream has cancelled the context while a SendAudio call on
\* the Active session is in progress (inside a chunk write or between two
\* chunks; no write of the call has failed for another reason), the call
\* writes no further chunk and, when it returns, returns success.
C14_CancelledSendSucceeds ==
  [][\A t \in Senders :
       (/\ SendInProgress(t)
        /\ snd[t].active
        /\ cancel \in cancelled
        /\ ~(pc[t] = "s_result" /\ snd[t].err = "error")) =>
         /\ ChunksOf(snd[t].call)' = ChunksOf(snd[t].call)
         /\ pc'[t] = "idle" => snd'[t].ret = GoTrue]_vars

\* C15: when the receive of a ReceiveTranscript call is aborted by the
\* cancellation of the context, the call returns success and the transcript
\* written through output is the empty string.
C15_CancelledReceiveIsEmpty ==
  \A t \in Receivers :
    (RecvReturned(t) /\ rcv[t].err = "Canceled") =>
      /\ rcv[t].ret = GoTrue
      /\ rcv[t].output # None
      /\ rcv[t].output = <<>>

\* The chunks cs are the first chunks of a buffer of n samples, each once
\* and in order.
InOrderChunks(cs, n) ==
  \A i \in 1..Len(cs) :
    /\ cs[i].from = 1024 * (i - 1)
    /\ cs[i].n = IF 2 * n - cs[i].from < 1024 THEN 2 * n - cs[i].from ELSE 1024

\* C16: when a chunk write fails for a reason other than cancellation,
\* SendAudio overwrites logStatus with the failure and returns failure at
\* once; it writes none of the remaining chunks, and the chunks written
\* before are on the stream once each, in order.
C16_SendFailureAbandons ==
  /\ [][\A t \in Senders :
          (pc[t] = "s_result" /\ snd[t].err = "error" /\ pc'[t] # pc[t]) =>
            /\ pc'[t] = "idle"
            /\ snd'[t].ret = GoFalse
            /\ logStatus' = ErrSendAudio
            /\ wire' = wire]_vars
  /\ [](\A t \in Senders :
          (SendReturned(t) /\ snd[t].ret = GoFalse) =>
            /\ Len(ChunksOf(snd[t].call)) < ChunksNeeded(snd[t].length)
            /\ InOrderChunks(ChunksOf(snd[t].call), snd[t].length))

C16_Witness ==
  \E t \in Senders :
    /\ SendReturned(t)
    /\ snd[t].active
    /\ snd[t].ret = GoFalse
    /\ logStatus = ErrSendAudio
    /\ Len(ChunksOf(snd[t].call)) >= 1

\* The text ReceiveTranscript logs for the failure of the call of t.
RecvFailureText(t) ==
  IF rcv[t].err = "EOF" THEN ErrRecvEOF
  ELSE IF rcv[t].err = "error" THEN ErrRecvOther
  ELSE ErrRecognize

\* The receive of t failed without cancellation, or its response carries a
\* recognition error.
RecvFailed(t) ==
  \/ rcv[t].err \in {"EOF", "error"}
  \/ rcv[t].err = "nil" /\ rcv[t].resp.error

\* C17: when the receive reports the end of the stream or another failure
\* that is not a cancellation, or the response carries a recognition error,
\* ReceiveTranscript overwrites logStatus with a description and returns
\* failure without writing output.
C17_ReceiveFailureLogged ==
  [][\A t \in Receivers :
       (pc[t] = "r_process" /\ RecvFailed(t) /\ pc'[t] # pc[t]) =>
         /\ pc'[t] = "idle"
         /\ rcv'[t].ret = GoFalse
         /\ logStatus' = RecvFailureText(t)
         /\ logStatus' # ""
         /\ rcv'[t].output = None]_vars

C17_Witness ==
  \E t \in Receivers :
    /\ RecvReturned(t)
    /\ rcv[t].err = "nil"
    /\ rcv[t].resp.error
    /\ rcv[t].ret = GoFalse
    /\ logStatus = ErrRecognize
    /\ rcv[t].output = None

\* The texts the library writes to logStatus.
FailureTexts ==
  {ErrNotInitialized, ErrNewClient, ErrStreamingRecognize, ErrConfigSend,
   ErrSendAudio, ErrRecvEOF, ErrRecvOther, ErrRecognize}

\* The SendAudio call of t returns in this step.
SendReturns(t) == pc[t] # "idle" /\ pc'[t] = "idle"

\* The ReceiveTranscript call of t returns in this step.
RecvReturns(t) == pc[t] # "idle" /\ pc'[t] = "idle"

\* C18: GetLog returns the empty string until a failure is recorded: logStatus
\* starts empty and changes only in the step in which a call that met a
\* failure returns, to that failure's text; whenever InitializeStream,
\* SendAudio or ReceiveTranscript returns failure, logStatus holds that
\* failure's text at the return, whatever it held before; GetLog returns
\* logStatus and changes no state.
C18_LogIsLastFailure ==
  /\ [](logStatus = "" \/ logStatus \in FailureTexts)
  /\ [][logStatus' # logStatus =>
          /\ logStatus' \in FailureTexts
          /\ \/ InitializeReturns /\ init'.ret = GoFalse
             \/ \E t \in Senders :
                  SendReturns(t) /\ (snd'[t].ret = GoFalse \/ ~snd'[t].clean)
             \/ \E t \in Receivers : RecvReturns(t) /\ rcv'[t].ret = GoFalse]_vars
  /\ [][(InitializeReturns /\ init'.ret = GoFalse) =>
          logStatus' = InitError(init'.outcome)]_vars
  /\ [][\A t \in Senders :
          (SendReturns(t) /\ snd'[t].ret = GoFalse) => logStatus' = ErrSendAudio]_vars
  /\ [][\A t \in Receivers :
          (RecvReturns(t) /\ rcv'[t].ret = GoFalse) =>
            logStatus' = IF pc[t] = "r_check" THEN ErrNotInitialized
                         ELSE RecvFailureText(t)]_vars
  /\ [][(query' # query /\ query'.fn = "GetLog") =>
          /\ query'.log = logStatus
          /\ UNCHANGED <<globals, locks, cancelled, wire, fault, pc, init,
                         snd, rcv, cls>>]_vars

C18_Witness ==
  /\ init.outcome = "client_fail"
  /\ RecvReturned("r1")
  /\ rcv["r1"].ret = GoFalse
  /\ query.fn = "GetLog"
  /\ query.call = ops
  /\ query.log = ErrNotInitialized
  /\ logStatus = ErrNotInitialized

\* m is an audio message whose content has 1 to 1024 bytes.
IsAudioChunk(m) == m.type = "audio" /\ Len(AudioContent(m)) \in 1..1024

\* C19: on every stream opened by InitializeStream the first client message
\* is the configuration message and it is the only one; every later client
\* message on that stream is an audio chunk of 1 to 1024 bytes.
C19_ConfigFirstThenAudio ==
  \A k \in 1..MaxOps :
    wire[k] # <<>> =>
      /\ wire[k][1].type = "config"
      /\ \A i \in 2..Len(wire[k]) : IsAudioChunk(wire[k][i])

\* The client messages on stream k are chunks of one call, then a chunk of
\* another call, then again a chunk of the first.
Interleaved(k) ==
  \E i, j, l \in 1..Len(wire[k]) :
    /\ i < j /\ j < l
    /\ wire[k][i].type = "audio" /\ wire[k][j].type = "audio"
    /\ wire[k][l].type = "audio"
    /\ wire[k][i].call = wire[k][l].call
    /\ wire[k][i].call # wire[k][j].call

\* C20: with SendAudio calls running concurrently on an Active session, the
\* chunks of each call are on the stream in the order the call emitted them,
\* each once and none missing: at any time they are the first chunks of the
\* call's buffer, and all of them when the call returns after a last
\* successful write (chunks of different calls may interleave).
C20_PerCallOrder ==
  \A t \in Senders :
    snd[t].call # 0 =>
      LET cs == ChunksOf(snd[t].call) IN
        /\ InOrderChunks(cs, snd[t].length)
        /\ Len(cs) <= ChunksNeeded(snd[t].length)
        /\ \A i, j \in 1..Len(cs) : cs[i].src = t /\ cs[i].length = cs[j].length
        /\ (SendReturned(t) /\ snd[t].active /\ snd[t].clean) =>
             Len(cs) = ChunksNeeded(snd[t].length)

C20_Witness ==
  /\ \E k \in 1..MaxOps : Interleaved(k)
  /\ SendReturned("s1") /\ snd["s1"].clean
  /\ Len(ChunksOf(snd["s1"].call)) = 2
  /\ Len(ChunksOf(snd["s2"].call)) >= 1

\* The receive of t returns a response in this step.
RecvDelivers(t) ==
  pc[t] = "r_recv" /\ pc'[t] = "r_process" /\ rcv'[t].err = "nil"

\* C21: with ReceiveTranscript calls running concurrently on an Active
\* session, every receive that returns a response returns the next response
\* of the stream, the one after the last response a call obtained (none is
\* skipped, none is returned twice), the call that obtains it is the one
\* holding the receive lock, and each call processes the response it obtained.
C21_ResponsesInOrder ==
  /\ [][\A t \in Receivers :
          RecvDelivers(t) =>
            /\ receiveMutex = t
            /\ rcv'[t].seq = delivered[rcv[t].stream] + 1
            /\ delivered'[rcv[t].stream] = delivered[rcv[t].stream] + 1
            /\ \A u \in Receivers \ {t} : rcv'[u] = rcv[u]]_vars
  /\ [](\A t, u \in Receivers :
          (/\ t # u
           /\ rcv[t].err = "nil" /\ rcv[u].err = "nil"
           /\ pc[t] = "r_process" /\ pc[u] = "r_process"
           /\ rcv[t].stream = rcv[u].stream) => rcv[t].seq # rcv[u].seq)

C21_Witness ==
  /\ pc["r1"] = "idle"
  /\ rcv["r1"].err = "nil"
  /\ rcv["r1"].ret = GoTrue
  /\ rcv["r1"].seq = 1
  /\ pc["r2"] = "r_process"
  /\ rcv["r2"].err = "nil"
  /\ rcv["r2"].seq = 2
  /\ delivered[rcv["r2"].stream] = 2

\* C22: a successful InitializeStream, also one made after CloseStream,
\* makes the session Active with both locks free, on a newly opened stream
\* whose context is not cancelled; while the last InitializeStream is a
\* successful one, every write and every receive is made on its stream, never
\* on a stream closed before.
C22_ReinitializeIsFresh ==
  /\ [][(InitializeReturns /\ init'.ret = GoTrue) =>
          /\ IsInitialized' = GoTrue
          /\ sendMutex' = Free /\ receiveMutex' = Free
          /\ stream' # Nil /\ stream' # stream
          /\ stream' \notin cancelled' /\ cancel' \notin cancelled'
          /\ stream' = cancel']_vars
  /\ [](init.outcome = "ok" =>
          /\ \A t \in Writing : snd[t].stream = cancel
          /\ \A t \in Receiving : rcv[t].stream = cancel)
  /\ [][init.outcome = "ok" =>
          \A k \in 1..MaxOps : wire'[k] # wire[k] => k = cancel']_vars

C22_Witness ==
  /\ init.outcome = "ok"
  /\ IsInitialized = GoTrue
  /\ cancelled # {}
  /\ cancel \notin cancelled
  /\ stream = cancel
  /\ Len(wire[cancel]) >= 2
  /\ \A k \in cancelled : Len(wire[k]) = 1

\* The configuration of the scenario: "en-US", 16000, "default", 1, false.
ScenarioConfig == CHOOSE c \in Configs : TRUE

\* C23: from the initial state, with a remote that accepts everything:
\* InitializeStream("en-US", 16000, "default", 1, false) returns 1 and
\* IsInitialized() is 1; SendAudio of the samples 100, -100, 0, 32000 returns
\* 1 and writes one chunk of 8 bytes; the response with the one alternative
\* "test" makes ReceiveTranscript return 1 with the output "test"; after
\* CloseStream IsInitialized() is 0.
C23_EndToEnd ==
  /\ [][(InitializeReturns /\ init'.outcome = "ok") =>
          /\ init'.ret = GoTrue
          /\ IsInitialized' = GoTrue
          /\ wire'[stream'] = <<ConfigMsg(ScenarioConfig)>>]_vars
  /\ [](\A t \in Senders :
          (SendReturned(t) /\ snd[t].active /\ snd[t].clean
             /\ Recording(snd[t].length) = ScenarioRecording) =>
            /\ snd[t].ret = GoTrue
            /\ Len(ChunksOf(snd[t].call)) = 1
            /\ AudioContent(ChunksOf(snd[t].call)[1])
                 = <<100, 0, 156, 255, 0, 0, 0, 125>>)
  /\ [](\A t \in Receivers :
          (RecvGotResponse(t) /\ rcv[t].resp.results = <<<<Test>>>>) =>
            /\ pc[t] = "idle"
            /\ rcv[t].ret = GoTrue
            /\ rcv[t].output = <<"t", "e", "s", "t">>)
  /\ [][\A c \in Closers :
          (pc[c] = "c_unlockSend" /\ pc'[c] = "idle") =>
            IsInitialized' = GoFalse]_vars

C23_Witness ==
  /\ init.outcome = "ok" /\ init.ret = GoTrue /\ cancel = 1
  /\ SendReturned("s1") /\ snd["s1"].call = 2 /\ snd["s1"].ret = GoTrue
  /\ Len(ChunksOf(2)) = 1 /\ Len(AudioContent(ChunksOf(2)[1])) = 8
  /\ RecvReturned("r1") /\ rcv["r1"].call = 3 /\ rcv["r1"].ret = GoTrue
  /\ rcv["r1"].err = "nil"
  /\ rcv["r1"].output = <<"t", "e", "s", "t">>
  /\ cls.run = 1
  /\ pc["c1"] = "idle"
  /\ IsInitialized = GoFalse
  /\ fault = None


\* A CloseStream call c holds both locks.
HoldsBoth(c) == sendMutex = c /\ receiveMutex = c

\* C24: CloseStream acquires the send lock and then the receive lock, and
\* only while it holds both does it cancel the context, clear the stream
\* handle and reset the state; it issues no cancellation while it holds
\* neither lock.
C24_CloseUnderBothLocks ==
  [][\A c \in Closers :
       /\ (receiveMutex # c /\ receiveMutex' = c) => sendMutex = c
       /\ (pc[c] = "c_clear" /\ pc'[c] # "c_clear") => HoldsBoth(c)
       /\ cancelled' # cancelled => HoldsBoth(c)]_vars


\* C24, as the code has it: CloseStream cancels the context first, holding
\* neither lock; then it acquires the send lock and then the receive lock,
\* and only while it holds both does it clear the stream handle and reset
\* the state.
C24_CancelThenBothLocks ==
  [][\A c \in Closers :
       /\ (sendMutex # c /\ sendMutex' = c) => cancel \in cancelled
       /\ (receiveMutex # c /\ receiveMutex' = c) => sendMutex = c
       /\ (pc[c] = "c_clear" /\ pc'[c] # "c_clear") => HoldsBoth(c)
       /\ (stream' # stream /\ pc[c] # "idle") => HoldsBoth(c)
       /\ (initialized' # initialized /\ pc[c] # "idle") => HoldsBoth(c)
       /\ cancelled' # cancelled =>
            /\ pc[c] = "idle" /\ pc'[c] = "c_lockSend"
            /\ sendMutex # c /\ receiveMutex # c]_vars

\* A CloseStream call holds both locks and has cleared an Active session
\* whose context it cancelled before.
C24_Witness ==
  \E c \in Closers :
    /\ pc[c] = "c_unlockRecv"
    /\ HoldsBoth(c)
    /\ cancel \in cancelled
    /\ stream = Nil /\ IsInitialized = GoFalse
    /\ init.outcome = "ok"


\* C26: a ReceiveTranscript call that finds the session Active calls
\* stream.Recv exactly once, while it holds the receive lock, and has
\* released the lock when it handles the error and normalizes the message;
\* it never goes back for another message in the same call.
C26_OneReceivePerCall ==
  /\ [](\A t \in Receivers :
          /\ pc[t] = "r_recv" => receiveMutex = t
          /\ pc[t] = "r_process" => receiveMutex # t)
  /\ [][\A t \in Receivers :
          /\ (pc[t] = "r_check" /\ initialized /\ pc'[t] # "r_check") =>
               pc'[t] \in {"r_recv", "panic"}
          /\ (pc[t] # "r_recv" /\ pc'[t] = "r_recv") =>
               pc[t] = "r_check" /\ rcv[t].err = None
          /\ (pc[t] = "r_recv" /\ pc'[t] # "r_recv") =>
               /\ pc'[t] = "r_process"
               /\ rcv[t].err = None /\ rcv'[t].err # None
               /\ receiveMutex' # t
          /\ (pc[t] = "r_process" /\ pc'[t] # "r_process") =>
               pc'[t] \in {"idle", "panic"} /\ receiveMutex' # t]_vars

\* One call handles the message it received while another call, holding
\* the receive lock, is inside its receive.
C26_Witness ==
  /\ pc["r1"] = "r_process" /\ rcv["r1"].err = "nil"
  /\ pc["r2"] = "r_recv" /\ receiveMutex = "r2"


\* The faults of an index or slice expression on helperString.
RangeFaults == {"index out of range", "slice bounds out of range"}

\* C27: for every received response that carries no error, ReceiveTranscript
\* returns without an out-of-range access or another fault, also when the
\* concatenated alternatives are empty or a single ';'.
C27_NoFaultOnResponse ==
  /\ fault \notin RangeFaults
  /\ \A t \in Receivers : rcv[t].err = "nil" => pc[t] # "panic"


\* No SendAudio, ReceiveTranscript or CloseStream call is in progress.
NoCallInProgress == \A t \in Threads : pc[t] = "idle"

\* C28: whenever no SendAudio, ReceiveTranscript or CloseStream call is in
\* progress both locks are free: a call that has returned, on any path,
\* holds no lock, so a state error returned before InitializeStream does
\* not block a later call.
C28_LocksFreeAtRest ==
  /\ NoCallInProgress => (sendMutex = Free /\ receiveMutex = Free)
  /\ \A t \in Threads : pc[t] = "idle" => (sendMutex # t /\ receiveMutex # t)

\* InitializeStream was never called; the first call, a SendAudio, has
\* returned the state error and the second SendAudio holds the send lock.
C28_Witness ==
  /\ cancel = Nil /\ fault = None
  /\ ops = 2 /\ snd["s1"].call = 2
  /\ pc["s1"] = "s_check" /\ sendMutex = "s1"
  /\ rcv["r1"].call = 0
  /\ logStatus = ErrNotInitialized


\* A CloseStream call is at its clearing statements.
Clearing == \E c \in Closers : pc[c] = "c_clear"

\* C30: SendAudio, ReceiveTranscript, GetLog and IsInitialized never change
\* initialized or the stream handle, whatever their outcome: initialized
\* becomes true only in a successful InitializeStream and false only in
\* CloseStream, a failed write or receive leaves it as it is, and GetLog and
\* IsInitialized change nothing of the library at all.
C30_QueriesAndTransfersKeepState ==
  [][/\ (initialized' # initialized \/ stream' # stream) =>
          (InitializeReturns \/ Clearing)
     /\ (~initialized /\ initialized') =>
          (InitializeReturns /\ init'.ret = GoTrue)
     /\ (initialized /\ ~initialized') => Clearing
     /\ \A t \in Senders \cup Receivers :
          pc'[t] # pc[t] => UNCHANGED <<initialized, stream>>
     /\ query' # query =>
          UNCHANGED <<globals, locks, cancelled, wire, fault, pc, init, snd,
                      rcv, cls, delivered>>]_vars

\* On an Active session a chunk write and a receive have both failed, and
\* IsInitialized, called after them, has returned 1.
C30_Witness ==
  /\ SendReturned("s1") /\ snd["s1"].active /\ snd["s1"].ret = GoFalse
  /\ RecvReturned("r1") /\ rcv["r1"].err = "error" /\ rcv["r1"].ret = GoFalse
  /\ query.fn = "IsInitialized" /\ query.call = ops /\ query.flag = GoTrue
  /\ initialized /\ stream # Nil


\* A CloseStream call has been made and has not returned.
CloseCalled == \E c \in Closers : pc[c] \notin {"idle", "panic"}

\* C25: with a remote service that never responds and threads that run, a
\* ReceiveTranscript call blocked in its receive and a SendAudio call
\* blocked in a chunk write return once CloseStream is called, and
\* CloseStream itself returns, with the session not Active: it never waits
\* forever for a lock that a blocked call holds.
C25_CloseUnblocks ==
  /\ \A t \in Receivers : (pc[t] = "r_recv" /\ CloseCalled) ~> pc[t] = "idle"
  /\ \A t \in Senders : (pc[t] = "s_send" /\ CloseCalled) ~> pc[t] = "idle"
  /\ \A c \in Closers :
       pc[c] \notin {"idle", "panic"} ~> (pc[c] = "idle" /\ ~initialized)


\* C29: no state is a lock deadlock. CloseStream alone holds one lock while
\* it acquires the other, always the send lock before the receive lock;
\* SendAudio holds only the send lock and ReceiveTranscript only the receive
\* lock; so, when the stream operations return and the threads run, every
\* call completes, having acquired each lock it waited for (unless a fault
\* has ended the process).
C29_NoLockDeadlock ==
  /\ [](/\ \A t \in Senders : receiveMutex # t
        /\ \A t \in Receivers : sendMutex # t
        /\ \A c \in Closers : receiveMutex = c => sendMutex = c)
  /\ \A t \in Threads : pc[t] # "idle" ~> (pc[t] = "idle" \/ fault # None)

\* CloseStream holds both locks while a SendAudio call and a
\* ReceiveTranscript call each wait for theirs.
C29_Witness ==
  /\ \E c \in Closers : HoldsBoth(c) /\ pc[c] = "c_clear"
  /\ pc["s1"] = "s_lock"
  /\ pc["r1"] = "r_lock"
  /\ fault = None


\* The streams that hold a chunk of call k.
StreamsOf(k) ==
  {j \in 1..MaxOps : \E i \in 1..Len(wire[j]) : IsChunkOf(k, wire[j][i])}

\* C31: all chunks one SendAudio call writes go to one stream, that of the
\* session Active at its first chunk: after CloseStream and a successful
\* InitializeStream between two of its chunk writes, the call writes no
\* chunk onto the stream of the new session.
C31_ChunksOnOneStream ==
  \A k \in 1..MaxOps : Cardinality(StreamsOf(k)) <= 1


\* The streams opened by a successful InitializeStream (each on the context
\* of its call) whose context has not been cancelled.
LiveStreams == {k \in 1..MaxOps : wire[k] # <<>> /\ k \notin cancelled}

\* C32: after CloseStream has returned, the context of every stream an
\* earlier InitializeStream opened is cancelled, also when InitializeStream
\* was called twice or more with no CloseStream between; and at no time is
\* there more than one stream whose context is not cancelled.
C32_NoStreamLeftOpen ==
  /\ (cls.run >= 1 /\ \A c \in Closers : pc[c] = "idle") => LiveStreams = {}
  /\ Cardinality(LiveStreams) <= 1


\* The chunk writes the call of t has started: those on the wire, and the
\* one it is inside.
WritesStarted(t) ==
  Len(ChunksOf(snd[t].call)) + (IF pc[t] = "s_send" THEN 1 ELSE 0)

\* C33: a SendAudio call on N samples makes at most ceil(2N / 1024) chunk
\* writes and, when each write returns and the send lock is granted,
\* returns (unless a fault has ended the process): every pass of its loop
\* moves the read offset forward, within the 2N bytes of the buffer; it
\* returns at the first write that fails or is cancelled and at the first
\* state check that fails; and once it has returned it writes no chunk.
C33_SendAudioTerminates ==
  /\ [](\A t \in Senders :
          snd[t].call # 0 =>
            /\ WritesStarted(t) <= ChunksNeeded(snd[t].length)
            /\ snd[t].off <= 2 * snd[t].length)
  /\ [][\A t \in Senders :
          /\ (pc[t] = "s_result" /\ pc'[t] = "s_lock") =>
               (snd[t].err = "nil" /\ snd'[t].off > snd[t].off)
          /\ (pc[t] = "s_result" /\ snd[t].err # "nil" /\ pc'[t] # pc[t]) =>
               pc'[t] = "idle"
          /\ (pc[t] = "s_check" /\ ~initialized /\ pc'[t] # pc[t]) =>
               (pc'[t] = "idle" /\ wire' = wire)
          /\ \A k \in 1..MaxOps :
               (pc[t] = "idle" /\ snd[t].call = k) =>
                 ChunksOf(k)' = ChunksOf(k)]_vars
  /\ \A t \in Senders :
       SendInProgress(t) ~> (pc[t] = "idle" \/ fault # None)

\* A call with the longest recording has written every chunk and returned.
C33_Witness ==
  /\ SendReturned("s1") /\ snd["s1"].length = 1025
  /\ snd["s1"].clean /\ snd["s1"].ret = GoTrue
  /\ Len(ChunksOf(snd["s1"].call)) = ChunksNeeded(1025)
  /\ Len(ChunksOf(snd["s1"].call)) = 3

====
